---- MODULE Spec2Model ----
(***************************************************************************)
(* A model of the in-memory key-value store of src/src: the key index      *)
(* (handler.h, db_entry), the expiry min-heap (minheap.h), the linked-list *)
(* value (handler.h, RedisList), the order-statistics AVL tree (zset.h)    *)
(* and the event loop with its active eviction sweep (main.c).             *)
(*                                                                         *)
(* Byte strings are sequences of character codes, so that strcmp can be    *)
(* modelled as the lexicographic comparison it is.  Keys are TLA+ strings: *)
(* they are only ever looked up, copied and compared for equality.         *)
(***************************************************************************)
EXTENDS Integers, Sequences, FiniteSets, TLC

VARIABLES
    db,      \* the hash table `db` of main(): key -> db_entry
    heap,    \* expiry_heap->items[0 .. size-1], as a 1-based sequence
    now,     \* the value current_time_ms() returns
    pc,      \* position of main()'s loop: "events", "sweep" or "crashed"
    op,      \* the step main() took last: [verb, key]
    reply,   \* what that step sent to the client
    pushFailed  \* history: keys whose latest SET could not push its heap entry

vars == <<db, heap, now, pc, op, reply, pushFailed>>

(***************************************************************************)
(* Bounds of the model.                                                    *)
(***************************************************************************)
MaxTime == 1        \* the clock runs from 0 to MaxTime
MaxPx == 1          \* SET .. PX ms is issued with ms in 0 .. MaxPx
MaxHeap == 2        \* no SET .. PX is issued once the heap holds MaxHeap entries
MaxListLen == 3     \* no RPUSH is issued that would make a list longer
MaxZCard == 4       \* no ZADD is issued on a sorted set that already has MaxZCard members
MaxHeapSize == 5    \* no heap_push is called on a heap that holds MaxHeapSize entries
MaxAvlCard == 6     \* no zset_add is called that would give a tree more than MaxAvlCard nodes

Keys == {"k1", "k2"}

\* "a", "b", "c", "ab" as byte strings
StrA == <<97>>
StrB == <<98>>
StrC == <<99>>
StrAB == <<97, 98>>

NoExpiry == -1      \* handler.h: expiry_ms == -1 means "no TTL"
NULL == 0           \* the null ListNode pointer; nodes are numbered from 1

(***************************************************************************)
(* Replies (handler.h:16-19, parser.h:52-76).  One record shape for all.   *)
(***************************************************************************)
Reply(kind, str, n, items) == [kind |-> kind, str |-> str, n |-> n, items |-> items]

NoReply == Reply("none", <<>>, 0, <<>>)
REDIS_OK == Reply("status", <<79, 75>>, 0, <<>>)
REDIS_PONG == Reply("status", <<80, 79, 78, 71>>, 0, <<>>)
NULL_BULK_STRING == Reply("null", <<>>, -1, <<>>)
REDIS_WRONGTYPE == Reply("error", <<>>, 0, <<>>)
REDIS_EMPTY_ARRAY == Reply("array", <<>>, 0, <<>>)
encode_bulk_str(s) == Reply("bulk", s, Len(s), <<>>)
encode_integer(v) == Reply("int", <<>>, v, <<>>)
\* the "*<count>\r\n" header followed by the bulk strings actually sent
ArrayReply(count, items) == Reply("array", <<>>, count, items)

(***************************************************************************)
(* Values and entries (handler.h:24-51).                                   *)
(***************************************************************************)
Nil == <<>>         \* the empty tree / a NULL ZSetNode pointer

EmptyList == [head |-> NULL, tail |-> NULL, len |-> 0, nodes |-> <<>>]

Entry(type, str, list, zset, expiry) ==
    [type |-> type, str |-> str, list |-> list, zset |-> zset, expiry |-> expiry]

StringEntry(v, expiry) == Entry("string", v, EmptyList, Nil, expiry)
ListEntry(l, expiry) == Entry("list", <<>>, l, Nil, expiry)
ZSetEntry(z, expiry) == Entry("zset", <<>>, EmptyList, z, expiry)

\* HASH_ADD_STR / assignment through the found pointer
DbPut(d, k, e) == [x \in (DOMAIN d) \cup {k} |-> IF x = k THEN e ELSE d[x]]
\* HASH_DEL
DbDel(d, k) == [x \in (DOMAIN d) \ {k} |-> d[x]]

Op(verb, key) == [verb |-> verb, key |-> key]

(***************************************************************************)
(* The min-heap (minheap.h).  items is 1-based here, indices are 0-based   *)
(* as in the C code.                                                       *)
(***************************************************************************)
HeapEntry(expiry, key) == [expiry_ms |-> expiry, key |-> key]

compare_expiry_entry(e1, e2) ==
    IF e1.expiry_ms < e2.expiry_ms THEN -1
    ELSE IF e1.expiry_ms > e2.expiry_ms THEN 1
    ELSE 0

_heap_swap(items, i, j) ==
    [items EXCEPT ![i + 1] = items[j + 1], ![j + 1] = items[i + 1]]

RECURSIVE _heap_sift_up(_, _)
_heap_sift_up(items, index) ==
    IF index = 0 THEN items
    ELSE LET parent_index == (index - 1) \div 2 IN
         IF compare_expiry_entry(items[index + 1], items[parent_index + 1]) < 0
         THEN _heap_sift_up(_heap_swap(items, index, parent_index), parent_index)
         ELSE items

\* (variant: the right child is never looked at)
RECURSIVE _heap_sift_down_LeftOnly(_, _)
_heap_sift_down_LeftOnly(items, index) ==
    LET size == Len(items)
        left_child_index == 2 * index + 1
        min_index == IF left_child_index < size
                        /\ compare_expiry_entry(items[left_child_index + 1], items[index + 1]) < 0
                     THEN left_child_index ELSE index
    IN IF min_index = index THEN items
       ELSE _heap_sift_down_LeftOnly(_heap_swap(items, index, min_index), min_index)

RECURSIVE _heap_sift_down(_, _)
_heap_sift_down(items, index) ==
    LET size == Len(items)
        left_child_index == 2 * index + 1
        right_child_index == 2 * index + 2
        m1 == IF left_child_index < size
                 /\ compare_expiry_entry(items[left_child_index + 1], items[index + 1]) < 0
              THEN left_child_index ELSE index
        min_index == IF right_child_index < size
                        /\ compare_expiry_entry(items[right_child_index + 1], items[m1 + 1]) < 0
                     THEN right_child_index ELSE m1
    IN IF min_index = index THEN items
       ELSE _heap_sift_down(_heap_swap(items, index, min_index), min_index)

\* (variant: the new entry is appended and not sifted up)
heap_push_NoSift(items, item) == Append(items, item)

heap_push(items, item) == _heap_sift_up(Append(items, item), Len(items))

\* the array heap_pop leaves behind; the popped item is heap_peek's
\* (variant: the last item is moved to the root but size is not decremented)
heap_pop_KeepsSize(items) ==
    IF Len(items) = 0 THEN items
    ELSE _heap_sift_down([items EXCEPT ![1] = items[Len(items)]], 0)

heap_pop(items) ==
    IF Len(items) = 0 THEN items
    ELSE LET moved == [i \in 1 .. (Len(items) - 1) |->
                          IF i = 1 THEN items[Len(items)] ELSE items[i]]
         IN IF Len(moved) > 0 THEN _heap_sift_down(moved, 0) ELSE moved

heap_peek(items) == IF Len(items) = 0 THEN Nil ELSE items[1]

(***************************************************************************)
(* The type check of the accessors (handler.h:185, 225, 301, 359, 395).    *)
(***************************************************************************)
\* variant: only a string is told apart from the container types
TypeMismatch_StringOnly(e, type) == e.type # type /\ (e.type = "string" \/ type = "string")

TypeMismatch(e, type) == e.type # type

(***************************************************************************)
(* Passive expiry test used by the accessors (handler.h:173, 232, 290).    *)
(***************************************************************************)
PassivelyExpired(e, t) == e.expiry # NoExpiry /\ e.expiry < t

(***************************************************************************)
(* SET (main.c:239-252, handler.h:118-159).  hasPx/ms are the parsed       *)
(* "PX <ms>" option; pushOk is whether malloc and heap_push succeed.       *)
(***************************************************************************)
\* (variant: PX ms is stored as it is, not added to the current time)
SetExpiry_Relative(hasPx, ms, t) == IF hasPx THEN ms ELSE NoExpiry

SetExpiry(hasPx, ms, t) == IF hasPx THEN t + ms ELSE NoExpiry

\* the bookkeeping entry of this SET could not be allocated or pushed
\* (handler.h:148 malloc returns NULL, or heap_push returns -1 at 151)
PushFails(expiry, pushOk) == expiry # NoExpiry /\ ~pushOk

\* variant: an existing entry keeps the expiry it had
handle_set_KeepsExpiry(k, v, expiry, pushOk) ==
    /\ db' = DbPut(db, k, StringEntry(v, IF k \in DOMAIN db THEN db[k].expiry ELSE expiry))
    /\ heap' = IF expiry # NoExpiry /\ pushOk
               THEN heap_push(heap, HeapEntry(expiry, k))
               ELSE heap
    /\ pushFailed' = IF PushFails(expiry, pushOk) THEN pushFailed \cup {k} ELSE pushFailed \ {k}
    /\ reply' = REDIS_OK

\* variant: when the push fails the entry is installed without its expiry
handle_set_FailureDropsExpiry(k, v, expiry, pushOk) ==
    /\ db' = DbPut(db, k, StringEntry(v, IF PushFails(expiry, pushOk) THEN NoExpiry ELSE expiry))
    /\ heap' = IF expiry # NoExpiry /\ pushOk
               THEN heap_push(heap, HeapEntry(expiry, k))
               ELSE heap
    /\ pushFailed' = IF PushFails(expiry, pushOk) THEN pushFailed \cup {k} ELSE pushFailed \ {k}
    /\ reply' = REDIS_OK

\* variant: the bookkeeping entries the key already has are dropped first
handle_set_ReplacesEntry(k, v, expiry, pushOk) ==
    /\ db' = DbPut(db, k, StringEntry(v, expiry))
    /\ heap' = LET kept == SelectSeq(heap, LAMBDA e : e.key # k) IN
               IF expiry # NoExpiry /\ pushOk
               THEN heap_push(kept, HeapEntry(expiry, k))
               ELSE kept
    /\ pushFailed' = IF PushFails(expiry, pushOk) THEN pushFailed \cup {k} ELSE pushFailed \ {k}
    /\ reply' = REDIS_OK

\* variant: no entry is pushed for a key that already has one in the heap
handle_set_PushesOnce(k, v, expiry, pushOk) ==
    /\ db' = DbPut(db, k, StringEntry(v, expiry))
    /\ heap' = IF /\ expiry # NoExpiry
                  /\ pushOk
                  /\ \A i \in 1 .. Len(heap) : heap[i].key # k
               THEN heap_push(heap, HeapEntry(expiry, k))
               ELSE heap
    /\ pushFailed' = IF PushFails(expiry, pushOk) THEN pushFailed \cup {k} ELSE pushFailed \ {k}
    /\ reply' = REDIS_OK

handle_set(k, v, expiry, pushOk) ==
    /\ db' = DbPut(db, k, StringEntry(v, expiry))
    /\ heap' = IF expiry # NoExpiry /\ pushOk
               THEN heap_push(heap, HeapEntry(expiry, k))
               ELSE heap
    /\ pushFailed' = IF PushFails(expiry, pushOk) THEN pushFailed \cup {k} ELSE pushFailed \ {k}
    /\ reply' = REDIS_OK

CmdSet(k, v, hasPx, ms, pushOk) ==
    /\ pc = "events"
    /\ hasPx => Len(heap) < MaxHeap
    /\ handle_set(k, v, SetExpiry(hasPx, ms, now), pushOk)
    /\ op' = Op("set", k)
    /\ UNCHANGED <<now, pc>>

(***************************************************************************)
(* GET (main.c:253-256, handler.h:161-198).                                *)
(***************************************************************************)
handle_get(k) ==
    IF k \notin DOMAIN db
    THEN /\ reply' = NULL_BULK_STRING
         /\ UNCHANGED db
    ELSE IF PassivelyExpired(db[k], now)
    THEN /\ db' = DbDel(db, k)
         /\ reply' = NULL_BULK_STRING
    ELSE IF TypeMismatch(db[k], "string")
    THEN /\ reply' = REDIS_WRONGTYPE
         /\ UNCHANGED db
    ELSE /\ reply' = encode_bulk_str(db[k].str)
         /\ UNCHANGED db

CmdGet(k) ==
    /\ pc = "events"
    /\ handle_get(k)
    /\ op' = Op("get", k)
    /\ UNCHANGED <<heap, now, pc, pushFailed>>

(***************************************************************************)
(* The linked list (handler.h:31-42).  nodes[i] is the i-th ListNode that  *)
(* was allocated; next is a node number or NULL.                           *)
(***************************************************************************)
ListNode(value, next) == [value |-> value, next |-> next]

\* variant: the new node always becomes the head
ListAppend_Relinks(l, v) ==
    LET new_node == Len(l.nodes) + 1 IN
    [head |-> new_node, tail |-> new_node, len |-> l.len + 1,
     nodes |-> Append(l.nodes, ListNode(v, NULL))]

\* variant: appending to a non-empty list leaves tail where it was
ListAppend_KeepsTail(l, v) ==
    LET new_node == Len(l.nodes) + 1 IN
    IF l.tail = NULL
    THEN [head |-> new_node, tail |-> new_node, len |-> l.len + 1,
          nodes |-> Append(l.nodes, ListNode(v, NULL))]
    ELSE [head |-> l.head, tail |-> l.tail, len |-> l.len + 1,
          nodes |-> Append([l.nodes EXCEPT ![l.tail].next = new_node], ListNode(v, NULL))]

\* one iteration of the append loop of handle_rpush (handler.h:250-261)
ListAppend(l, v) ==
    LET new_node == Len(l.nodes) + 1 IN
    IF l.tail = NULL
    THEN [head |-> new_node, tail |-> new_node, len |-> l.len + 1,
          nodes |-> Append(l.nodes, ListNode(v, NULL))]
    ELSE [head |-> l.head, tail |-> new_node, len |-> l.len + 1,
          nodes |-> Append([l.nodes EXCEPT ![l.tail].next = new_node], ListNode(v, NULL))]

RECURSIVE ListAppendAll(_, _)
ListAppendAll(l, vals) ==
    IF vals = <<>> THEN l ELSE ListAppendAll(ListAppend(l, Head(vals)), Tail(vals))

\* the values met when following next from node cur
RECURSIVE ListFrom(_, _)
ListFrom(nodes, cur) ==
    IF cur = NULL THEN <<>> ELSE <<nodes[cur].value>> \o ListFrom(nodes, nodes[cur].next)

ListItems(l) == ListFrom(l.nodes, l.head)

(***************************************************************************)
(* RPUSH (handler.h:200-270).  vals are cmnds[2 .. cmnd_list_size-1].      *)
(***************************************************************************)
\* variant: the type check of handler.h:225 is missing
handle_rpush_NoTypeCheck(k, vals) ==
    IF Len(vals) < 1
    THEN /\ reply' = NoReply
         /\ UNCHANGED db
    ELSE IF k \notin DOMAIN db
    THEN LET list == ListAppendAll(EmptyList, vals) IN
         /\ db' = DbPut(db, k, ListEntry(list, NoExpiry))
         /\ reply' = encode_integer(list.len)
    ELSE LET base == IF PassivelyExpired(db[k], now) THEN EmptyList ELSE db[k].list
             list == ListAppendAll(base, vals)
         IN /\ db' = DbPut(db, k, ListEntry(list,
                        IF PassivelyExpired(db[k], now) THEN NoExpiry ELSE db[k].expiry))
            /\ reply' = encode_integer(list.len)

handle_rpush(k, vals) ==
    IF Len(vals) < 1
    THEN /\ reply' = NoReply
         /\ UNCHANGED db
    ELSE IF k \notin DOMAIN db
    THEN LET list == ListAppendAll(EmptyList, vals) IN
         /\ db' = DbPut(db, k, ListEntry(list, NoExpiry))
         /\ reply' = encode_integer(list.len)
    ELSE IF TypeMismatch(db[k], "list")
    THEN /\ reply' = REDIS_WRONGTYPE
         /\ UNCHANGED db
    ELSE LET base == IF PassivelyExpired(db[k], now) THEN EmptyList ELSE db[k].list
             list == ListAppendAll(base, vals)
         IN /\ db' = DbPut(db, k, ListEntry(list,
                        IF PassivelyExpired(db[k], now) THEN NoExpiry ELSE db[k].expiry))
            /\ reply' = encode_integer(list.len)

ListLenAfter(k, vals) ==
    Len(vals) + (IF k \in DOMAIN db /\ db[k].type = "list" THEN db[k].list.len ELSE 0)

CmdRpush(k, vals) ==
    /\ pc = "events"
    /\ ListLenAfter(k, vals) <= MaxListLen
    /\ handle_rpush(k, vals)
    /\ op' = Op("rpush", k)
    /\ UNCHANGED <<heap, now, pc, pushFailed>>

(***************************************************************************)
(* LRANGE (handler.h:272-337).  Reading through a NULL current is a        *)
(* segmentation fault: the walk reports it and the process is gone.        *)
(***************************************************************************)
RECURSIVE LrangeSkip(_, _, _)
LrangeSkip(nodes, current, n) ==
    IF n <= 0 THEN [fault |-> FALSE, current |-> current]
    ELSE IF current = NULL THEN [fault |-> TRUE, current |-> NULL]
    ELSE LrangeSkip(nodes, nodes[current].next, n - 1)

RECURSIVE LrangeEmit(_, _, _, _)
LrangeEmit(nodes, current, n, sent) ==
    IF n <= 0 THEN [fault |-> FALSE, items |-> sent]
    ELSE IF current = NULL THEN [fault |-> TRUE, items |-> sent]
    ELSE LrangeEmit(nodes, nodes[current].next, n - 1, Append(sent, nodes[current].value))

\* variant: a stop equal to len is not clamped
LrangeStop_OffByOne(stop, len) == IF stop > len THEN len - 1 ELSE stop

LrangeStop(stop, len) == IF stop >= len THEN len - 1 ELSE stop

LrangeEmpty(start, stop, len) == start >= len \/ start > stop

handle_lrange(k, start, stop0) ==
    IF k \notin DOMAIN db
    THEN /\ reply' = REDIS_EMPTY_ARRAY
         /\ UNCHANGED <<db, pc>>
    ELSE IF PassivelyExpired(db[k], now)
    THEN /\ db' = DbDel(db, k)
         /\ reply' = REDIS_EMPTY_ARRAY
         /\ UNCHANGED pc
    ELSE IF TypeMismatch(db[k], "list")
    THEN /\ reply' = REDIS_WRONGTYPE
         /\ UNCHANGED <<db, pc>>
    ELSE LET list == db[k].list
             len == list.len
             stop == LrangeStop(stop0, len)
         IN IF LrangeEmpty(start, stop, len)
            THEN /\ reply' = REDIS_EMPTY_ARRAY
                 /\ UNCHANGED <<db, pc>>
            ELSE LET count == (stop - start) + 1
                     skipped == LrangeSkip(list.nodes, list.head, start)
                     walked == IF skipped.fault THEN [fault |-> TRUE, items |-> <<>>]
                               ELSE LrangeEmit(list.nodes, skipped.current, count, <<>>)
                 IN /\ reply' = ArrayReply(count, walked.items)
                    /\ pc' = IF walked.fault THEN "crashed" ELSE pc
                    /\ UNCHANGED db

CmdLrange(k, start, stop) ==
    /\ pc = "events"
    /\ handle_lrange(k, start, stop)
    /\ op' = Op("lrange", k)
    /\ UNCHANGED <<heap, now, pushFailed>>

(***************************************************************************)
(* The sorted set (zset.h): an AVL tree of nodes, Nil being the NULL       *)
(* pointer.  Scores are integers.                                          *)
(***************************************************************************)
ZSetNode(score, member, left, right, height, count) ==
    [score |-> score, member |-> member, left |-> left, right |-> right,
     height |-> height, count |-> count]

_zset_avl_height(n) == IF n = Nil THEN 0 ELSE n.height
_zset_avl_count(n) == IF n = Nil THEN 0 ELSE n.count
_zset_max(a, b) == IF a > b THEN a ELSE b

_zset_avl_update(n) ==
    IF n = Nil THEN n
    ELSE [n EXCEPT !.height = 1 + _zset_max(_zset_avl_height(n.left), _zset_avl_height(n.right)),
                   !.count = 1 + _zset_avl_count(n.left) + _zset_avl_count(n.right)]

_zset_node_new(score, member) == ZSetNode(score, member, Nil, Nil, 1, 1)

\* strcmp(3) on byte strings: the sign of the first difference
RECURSIVE strcmp(_, _)
strcmp(a, b) ==
    IF a = <<>> /\ b = <<>> THEN 0
    ELSE IF a = <<>> THEN 0 - Head(b)
    ELSE IF b = <<>> THEN Head(a)
    ELSE IF Head(a) # Head(b) THEN Head(a) - Head(b)
    ELSE strcmp(Tail(a), Tail(b))

\* (variant: members do not break a tie of scores)
_zset_avl_cmp_ScoreOnly(a_score, a_member, b_score, b_member) ==
    IF a_score < b_score THEN -1
    ELSE IF a_score > b_score THEN 1
    ELSE 0

_zset_avl_cmp(a_score, a_member, b_score, b_member) ==
    IF a_score < b_score THEN -1
    ELSE IF a_score > b_score THEN 1
    ELSE strcmp(a_member, b_member)

\* (variant: after the rotation only the new root is updated, not y)
_zset_avl_rotate_right_StaleY(y) ==
    LET x == y.left
        T2 == x.right
    IN _zset_avl_update([x EXCEPT !.right = [y EXCEPT !.left = T2]])

_zset_avl_rotate_right(y) ==
    LET x == y.left
        T2 == x.right
        y2 == _zset_avl_update([y EXCEPT !.left = T2])
    IN _zset_avl_update([x EXCEPT !.right = y2])

_zset_avl_rotate_left(x) ==
    LET y == x.right
        T2 == y.left
        x2 == _zset_avl_update([x EXCEPT !.right = T2])
    IN _zset_avl_update([y EXCEPT !.left = x2])

_zset_avl_get_balance(n) ==
    IF n = Nil THEN 0 ELSE _zset_avl_height(n.right) - _zset_avl_height(n.left)

RECURSIVE _zset_avl_min_node(_)
_zset_avl_min_node(node) ==
    IF node # Nil /\ node.left # Nil THEN _zset_avl_min_node(node.left) ELSE node

\* (variant: the search does not look into right subtrees)
RECURSIVE _zset_find_by_member_LeftOnly(_, _)
_zset_find_by_member_LeftOnly(node, member) ==
    IF node = Nil THEN Nil
    ELSE IF strcmp(node.member, member) = 0 THEN node
    ELSE _zset_find_by_member_LeftOnly(node.left, member)

RECURSIVE _zset_find_by_member(_, _)
_zset_find_by_member(node, member) ==
    IF node = Nil THEN Nil
    ELSE IF strcmp(node.member, member) = 0 THEN node
    ELSE LET left == _zset_find_by_member(node.left, member) IN
         IF left # Nil THEN left ELSE _zset_find_by_member(node.right, member)

\* the rotation cases applied after an insertion (zset.h:124-140)
InsertRebalance(node0, new_node) ==
    LET node == _zset_avl_update(node0)
        balance == _zset_avl_get_balance(node)
        cmpL == _zset_avl_cmp(new_node.score, new_node.member, node.left.score, node.left.member)
        cmpR == _zset_avl_cmp(new_node.score, new_node.member, node.right.score, node.right.member)
    IN IF balance < -1 /\ cmpL < 0 THEN _zset_avl_rotate_right(node)
       ELSE IF balance < -1 /\ cmpL > 0
       THEN _zset_avl_rotate_right([node EXCEPT !.left = _zset_avl_rotate_left(node.left)])
       ELSE IF balance > 1 /\ cmpR > 0 THEN _zset_avl_rotate_left(node)
       ELSE IF balance > 1 /\ cmpR < 0
       THEN _zset_avl_rotate_left([node EXCEPT !.right = _zset_avl_rotate_right(node.right)])
       ELSE node

RECURSIVE _zset_avl_insert(_, _)
_zset_avl_insert(node, new_node) ==
    IF node = Nil THEN new_node
    ELSE LET cmp == _zset_avl_cmp(new_node.score, new_node.member, node.score, node.member) IN
         IF cmp < 0
         THEN InsertRebalance([node EXCEPT !.left = _zset_avl_insert(node.left, new_node)], new_node)
         ELSE InsertRebalance([node EXCEPT !.right = _zset_avl_insert(node.right, new_node)], new_node)

\* (variant: a removal updates height and count but never rotates)
RemoveRebalance_NoRotate(node0) == _zset_avl_update(node0)

\* the rotation cases applied after a removal (zset.h:187-205)
RemoveRebalance(node0) ==
    LET node == _zset_avl_update(node0)
        balance == _zset_avl_get_balance(node)
    IN IF balance < -1 /\ _zset_avl_get_balance(node.left) <= 0 THEN _zset_avl_rotate_right(node)
       ELSE IF balance < -1 /\ _zset_avl_get_balance(node.left) > 0
       THEN _zset_avl_rotate_right([node EXCEPT !.left = _zset_avl_rotate_left(node.left)])
       ELSE IF balance > 1 /\ _zset_avl_get_balance(node.right) >= 0 THEN _zset_avl_rotate_left(node)
       ELSE IF balance > 1 /\ _zset_avl_get_balance(node.right) < 0
       THEN _zset_avl_rotate_left([node EXCEPT !.right = _zset_avl_rotate_right(node.right)])
       ELSE node

\* (variant: with two children the successor is copied but not removed)
RECURSIVE _zset_avl_remove_KeepsSuccessor(_, _, _)
_zset_avl_remove_KeepsSuccessor(node, score, member) ==
    IF node = Nil THEN Nil
    ELSE LET cmp == _zset_avl_cmp(score, member, node.score, node.member) IN
         IF cmp < 0
         THEN RemoveRebalance([node EXCEPT
                  !.left = _zset_avl_remove_KeepsSuccessor(node.left, score, member)])
         ELSE IF cmp > 0
         THEN RemoveRebalance([node EXCEPT
                  !.right = _zset_avl_remove_KeepsSuccessor(node.right, score, member)])
         ELSE IF node.left = Nil \/ node.right = Nil
         THEN (IF node.left # Nil THEN node.left ELSE node.right)
         ELSE LET succ == _zset_avl_min_node(node.right) IN
              RemoveRebalance([node EXCEPT !.score = succ.score, !.member = succ.member])

RECURSIVE _zset_avl_remove(_, _, _)
_zset_avl_remove(node, score, member) ==
    IF node = Nil THEN Nil
    ELSE LET cmp == _zset_avl_cmp(score, member, node.score, node.member) IN
         IF cmp < 0
         THEN RemoveRebalance([node EXCEPT !.left = _zset_avl_remove(node.left, score, member)])
         ELSE IF cmp > 0
         THEN RemoveRebalance([node EXCEPT !.right = _zset_avl_remove(node.right, score, member)])
         ELSE IF node.left = Nil \/ node.right = Nil
         THEN (IF node.left # Nil THEN node.left ELSE node.right)
         ELSE LET succ == _zset_avl_min_node(node.right) IN
              RemoveRebalance([node EXCEPT
                  !.score = succ.score,
                  !.member = succ.member,
                  !.right = _zset_avl_remove(node.right, succ.score, succ.member)])

\* variant: an update of the score is counted as an addition
zset_add_CountsUpdate(root, score, member) ==
    LET old_node == _zset_find_by_member(root, member) IN
    IF old_node # Nil /\ old_node.score = score
    THEN [root |-> root, added |-> 0]
    ELSE IF old_node # Nil
    THEN [root |-> _zset_avl_insert(_zset_avl_remove(root, old_node.score, old_node.member),
                                    _zset_node_new(score, member)),
          added |-> 1]
    ELSE [root |-> _zset_avl_insert(root, _zset_node_new(score, member)), added |-> 1]

\* variant: the old node is not removed before the new score is inserted
zset_add_KeepsOldNode(root, score, member) ==
    LET old_node == _zset_find_by_member(root, member) IN
    IF old_node # Nil /\ old_node.score = score
    THEN [root |-> root, added |-> 0]
    ELSE IF old_node # Nil
    THEN [root |-> _zset_avl_insert(root, _zset_node_new(score, member)), added |-> 0]
    ELSE [root |-> _zset_avl_insert(root, _zset_node_new(score, member)), added |-> 1]

\* zset_add: the new root and the value returned
zset_add(root, score, member) ==
    LET old_node == _zset_find_by_member(root, member) IN
    IF old_node # Nil /\ old_node.score = score
    THEN [root |-> root, added |-> 0]
    ELSE IF old_node # Nil
    THEN [root |-> _zset_avl_insert(_zset_avl_remove(root, old_node.score, old_node.member),
                                    _zset_node_new(score, member)),
          added |-> 0]
    ELSE [root |-> _zset_avl_insert(root, _zset_node_new(score, member)), added |-> 1]

\* zset_remove: the new root and the value returned
zset_remove(root, member) ==
    LET node == _zset_find_by_member(root, member) IN
    IF node = Nil THEN [root |-> root, removed |-> 0]
    ELSE [root |-> _zset_avl_remove(root, node.score, node.member), removed |-> 1]

\* (variant: going right, the rank is reduced by left_count only)
RECURSIVE RankDescend_OffByOne(_, _)
RankDescend_OffByOne(node, rank) ==
    IF node = Nil THEN Nil
    ELSE LET left_count == _zset_avl_count(node.left) IN
         IF rank = left_count THEN node
         ELSE IF rank < left_count THEN RankDescend_OffByOne(node.left, rank)
         ELSE RankDescend_OffByOne(node.right, rank - left_count)

RECURSIVE RankDescend(_, _)
RankDescend(node, rank) ==
    IF node = Nil THEN Nil
    ELSE LET left_count == _zset_avl_count(node.left) IN
         IF rank = left_count THEN node
         ELSE IF rank < left_count THEN RankDescend(node.left, rank)
         ELSE RankDescend(node.right, rank - left_count - 1)

zset_get_by_rank(root, rank) ==
    IF rank >= _zset_avl_count(root) THEN Nil ELSE RankDescend(root, rank)

(***************************************************************************)
(* ZADD (handler.h:338-378).  pairs are the (score, member) arguments.     *)
(***************************************************************************)
\* the loop of handler.h:366-371: the tree and elements_added after it
RECURSIVE ZaddLoop(_, _, _)
ZaddLoop(root, pairs, elements_added) ==
    IF pairs = <<>> THEN [root |-> root, added |-> elements_added]
    ELSE LET r == zset_add(root, Head(pairs)[1], Head(pairs)[2]) IN
         ZaddLoop(r.root, Tail(pairs), elements_added + r.added)

\* the key space and the reply handle_zadd leaves when run on key space d
handle_zadd_result(d, k, pairs) ==
    IF Len(pairs) < 1
    THEN [db |-> d, reply |-> NoReply]
    ELSE IF k \in DOMAIN d /\ TypeMismatch(d[k], "zset")
    THEN [db |-> d, reply |-> REDIS_WRONGTYPE]
    ELSE LET zset == IF k \in DOMAIN d THEN d[k].zset ELSE Nil
             expiry == IF k \in DOMAIN d THEN d[k].expiry ELSE NoExpiry
             r == ZaddLoop(zset, pairs, 0)
         IN [db |-> DbPut(d, k, ZSetEntry(r.root, expiry)),
             reply |-> encode_integer(r.added)]

handle_zadd(k, pairs) ==
    LET r == handle_zadd_result(db, k, pairs) IN
    /\ db' = r.db
    /\ reply' = r.reply

RECURSIVE TreeMembers(_)
TreeMembers(node) ==
    IF node = Nil THEN {}
    ELSE {node.member} \cup TreeMembers(node.left) \cup TreeMembers(node.right)

ZCardAfter(k, pairs) ==
    Cardinality({pairs[i][2] : i \in 1 .. Len(pairs)}
                \cup (IF k \in DOMAIN db THEN TreeMembers(db[k].zset) ELSE {}))

CmdZadd(k, pairs) ==
    /\ pc = "events"
    /\ ZCardAfter(k, pairs) <= MaxZCard
    /\ handle_zadd(k, pairs)
    /\ op' = Op("zadd", k)
    /\ UNCHANGED <<heap, now, pc, pushFailed>>

(***************************************************************************)
(* ZRANGE (handler.h:380-430).                                             *)
(***************************************************************************)
ZrangeIndex(i, total_elements) == IF i < 0 THEN total_elements + i ELSE i

\* (variant: a start that is still negative after resolution is kept)
ZrangeStart_NoClamp(start, total_elements) == ZrangeIndex(start, total_elements)

ZrangeStart(start, total_elements) ==
    LET s == ZrangeIndex(start, total_elements) IN IF s < 0 THEN 0 ELSE s

ZrangeStop(stop, total_elements) ==
    LET s == ZrangeIndex(stop, total_elements) IN
    IF s >= total_elements THEN total_elements - 1 ELSE s

\* members sent for ranks start .. start+count-1; a NULL node sends nothing
RECURSIVE ZrangeEmit(_, _, _, _)
ZrangeEmit(root, start, i, count) ==
    IF i >= count THEN <<>>
    ELSE LET node == zset_get_by_rank(root, start + i) IN
         (IF node # Nil THEN <<node.member>> ELSE <<>>) \o ZrangeEmit(root, start, i + 1, count)

\* the reply handle_zrange sends when run on key space d
handle_zrange_reply(d, k, start0, stop0) ==
    IF k \notin DOMAIN d
    THEN REDIS_EMPTY_ARRAY
    ELSE IF TypeMismatch(d[k], "zset")
    THEN REDIS_WRONGTYPE
    ELSE LET total_elements == _zset_avl_count(d[k].zset)
             start == ZrangeStart(start0, total_elements)
             stop1 == ZrangeIndex(stop0, total_elements)
         IN IF start > stop1 \/ start >= total_elements
            THEN REDIS_EMPTY_ARRAY
            ELSE LET stop == ZrangeStop(stop0, total_elements)
                     count == (stop - start) + 1
                 IN ArrayReply(count, ZrangeEmit(d[k].zset, start, 0, count))

handle_zrange(k, start, stop) ==
    /\ reply' = handle_zrange_reply(db, k, start, stop)
    /\ UNCHANGED db

CmdZrange(k, start, stop) ==
    /\ pc = "events"
    /\ handle_zrange(k, start, stop)
    /\ op' = Op("zrange", k)
    /\ UNCHANGED <<heap, now, pc, pushFailed>>

(***************************************************************************)
(* zset_remove has no command; it is called here directly on the sorted    *)
(* set stored under k, as a client of zset.h would.  Nothing is sent: the  *)
(* reply variable records the value zset_remove returns.                   *)
(***************************************************************************)
CallZsetRemove(k, member) ==
    /\ pc = "events"
    /\ k \in DOMAIN db
    /\ db[k].type = "zset"
    /\ LET r == zset_remove(db[k].zset, member) IN
       /\ db' = DbPut(db, k, ZSetEntry(r.root, db[k].expiry))
       /\ reply' = encode_integer(r.removed)
    /\ op' = Op("zset_remove", k)
    /\ UNCHANGED <<heap, now, pc, pushFailed>>

\* zset_add called on the sorted set of k (zset.h:237-254), which
\* zset_create (avl_root = NULL) has made if k is absent
CallZsetAdd(k, score, member) ==
    /\ pc = "events"
    /\ k \in DOMAIN db => db[k].type = "zset"
    /\ LET root == IF k \in DOMAIN db THEN db[k].zset ELSE Nil
           r == zset_add(root, score, member)
       IN /\ Cardinality(TreeMembers(root) \cup {member}) <= MaxAvlCard
          /\ db' = DbPut(db, k, ZSetEntry(r.root, NoExpiry))
          /\ reply' = encode_integer(r.added)
    /\ op' = Op("zset_add", k)
    /\ UNCHANGED <<heap, now, pc, pushFailed>>

(***************************************************************************)
(* The clock: gettimeofday() moves on between any two steps.               *)
(***************************************************************************)
(* heap_push and heap_pop called on the expiry heap directly               *)
(* (minheap.h:150-198); the reply records the timestamp of the entry       *)
(* heap_pop returns.                                                       *)
(***************************************************************************)
CallHeapPush(item) ==
    /\ pc = "events"
    /\ Len(heap) < MaxHeapSize
    /\ heap' = heap_push(heap, item)
    /\ op' = Op("heap_push", item.key)
    /\ reply' = NoReply
    /\ UNCHANGED <<db, now, pc, pushFailed>>

CallHeapPop ==
    /\ pc = "events"
    /\ heap' = heap_pop(heap)
    /\ op' = Op("heap_pop", IF Len(heap) = 0 THEN "" ELSE heap_peek(heap).key)
    /\ reply' = IF Len(heap) = 0 THEN NoReply ELSE encode_integer(heap_peek(heap).expiry_ms)
    /\ UNCHANGED <<db, now, pc, pushFailed>>

(***************************************************************************)
(* ECHO and PING (main.c:231-238, handler.h:107-116).                      *)
(***************************************************************************)
CmdEcho(str) ==
    /\ pc = "events"
    /\ reply' = encode_bulk_str(str)
    /\ op' = Op("echo", "")
    /\ UNCHANGED <<db, heap, now, pc, pushFailed>>

CmdPing ==
    /\ pc = "events"
    /\ reply' = REDIS_PONG
    /\ op' = Op("ping", "")
    /\ UNCHANGED <<db, heap, now, pc, pushFailed>>

(***************************************************************************)
(* Request parsing (parser.h:13-48, main.c:202-220).  A buffer is the      *)
(* sequence of the bytes received; main.c:177 puts a NUL after them.       *)
(* Indexes are 1-based here, so the C index ind is ind + 1.                *)
(***************************************************************************)
CharAt(str, ind) == IF ind \in 1 .. Len(str) THEN str[ind] ELSE 0

\* the while loop of extract_number: [num, ind] after the last digit
RECURSIVE ExtractDigits(_, _, _)
ExtractDigits(str, ind, num) ==
    IF CharAt(str, ind) - 48 >= 0 /\ CharAt(str, ind) - 48 <= 9
    THEN ExtractDigits(str, ind + 1, (num * 10) + (CharAt(str, ind) - 48))
    ELSE [num |-> num, ind |-> ind]

extract_number(ind, str) ==
    IF CharAt(str, ind) = 45
    THEN LET r == ExtractDigits(str, ind + 1, 0) IN [num |-> 0 - r.num, ind |-> r.ind]
    ELSE ExtractDigits(str, ind, 0)

\* the string extracted when malloc succeeds: [str, ind]
extract_bulk_string(ind, str) ==
    LET size == extract_number(ind + 1, str)
        from == size.ind + 2
    IN [str |-> [i \in 1 .. size.num |-> CharAt(str, (from + i) - 1)],
        ind |-> from + size.num]

\* cmnds[j .. n-1], extracted from position ind on
RECURSIVE ExtractArgs(_, _, _, _)
ExtractArgs(str, ind, j, n) ==
    IF j >= n THEN << >>
    ELSE LET b == extract_bulk_string(ind, str) IN
         <<b.str>> \o ExtractArgs(str, b.ind + 2, j + 1, n)

to_lowercase(str) ==
    [i \in 1 .. Len(str) |-> IF str[i] \in 65 .. 90 THEN str[i] + 32 ELSE str[i]]

\* strtol(s, NULL, 10) on a text without leading blanks: an optional sign,
\* then the digits up to the first other byte
strtol(s) ==
    IF CharAt(s, 1) = 45 THEN 0 - ExtractDigits(s, 2, 0).num
    ELSE IF CharAt(s, 1) = 43 THEN ExtractDigits(s, 2, 0).num
    ELSE ExtractDigits(s, 1, 0).num

atoi(s) == strtol(s)

\* strtod on the text of an integer (scores are integers here)
strtod(s) == strtol(s)

\* texts of the verbs, of "px" and of the keys
StrEcho == <<101, 99, 104, 111>>
StrPing == <<112, 105, 110, 103>>
StrSet == <<115, 101, 116>>
StrGet == <<103, 101, 116>>
StrRpush == <<114, 112, 117, 115, 104>>
StrLrange == <<108, 114, 97, 110, 103, 101>>
StrZadd == <<122, 97, 100, 100>>
StrZrange == <<122, 114, 97, 110, 103, 101>>
StrPx == <<112, 120>>

KeyText(k) == IF k = "k1" THEN <<107, 49>> ELSE <<107, 50>>

\* the key a key text names (HASH_FIND_STR compares the bytes)
KeyName(s) == CHOOSE k \in Keys : KeyText(k) = s

(***************************************************************************)
(* Command dispatch (main.c:231-279).                                      *)
(***************************************************************************)
\* the request ends without anything sent and without any change
ReturnSilently(verb) ==
    /\ reply' = NoReply
    /\ op' = Op(verb, "")
    /\ UNCHANGED <<db, heap, now, pc, pushFailed>>

\* the score/member pairs handle_zadd reads from cmnds[2 ..]
ZaddPairs(cmnds) ==
    [i \in 1 .. ((Len(cmnds) - 2) \div 2) |-> <<strtod(cmnds[(2 * i) + 1]), cmnds[(2 * i) + 2]>>]

Dispatch(cmnds) ==
    LET verb == to_lowercase(cmnds[1])
        cmnd_list_size == Len(cmnds)
    IN
    IF verb = StrEcho
    THEN IF cmnd_list_size > 1 THEN CmdEcho(cmnds[2]) ELSE ReturnSilently("echo")
    ELSE IF verb = StrPing
    THEN CmdPing
    ELSE IF verb = StrSet
    THEN IF cmnd_list_size < 3
         THEN ReturnSilently("set")
         ELSE LET hasPx == /\ cmnd_list_size > 3
                           /\ to_lowercase(cmnds[4]) = StrPx
                           /\ cmnd_list_size > 4
              IN CmdSet(KeyName(cmnds[2]), cmnds[3], hasPx,
                        IF hasPx THEN atoi(cmnds[5]) ELSE 0, TRUE)
    ELSE IF verb = StrGet
    THEN IF cmnd_list_size > 1 THEN CmdGet(KeyName(cmnds[2])) ELSE ReturnSilently("get")
    ELSE IF verb = StrRpush
    THEN IF cmnd_list_size < 3
         THEN ReturnSilently("rpush")
         ELSE CmdRpush(KeyName(cmnds[2]), SubSeq(cmnds, 3, cmnd_list_size))
    ELSE IF verb = StrLrange
    THEN IF cmnd_list_size # 4
         THEN ReturnSilently("lrange")
         ELSE CmdLrange(KeyName(cmnds[2]), strtol(cmnds[3]), strtol(cmnds[4]))
    ELSE IF verb = StrZadd
    THEN IF cmnd_list_size < 4 \/ (cmnd_list_size - 2) % 2 # 0
         THEN ReturnSilently("zadd")
         ELSE CmdZadd(KeyName(cmnds[2]), ZaddPairs(cmnds))
    ELSE IF verb = StrZrange
    THEN IF cmnd_list_size # 4
         THEN ReturnSilently("zrange")
         ELSE CmdZrange(KeyName(cmnds[2]), strtol(cmnds[3]), strtol(cmnds[4]))
    ELSE ReturnSilently("unknown")

\* what follows to_lowercase(cmnds[0]) at main.c:220 when cmnds[0] was never
\* written (argument count <= 0): the pointer is whatever the stack held.
\* The read faults, or it finds bytes that are no verb, or bytes that spell
\* a verb; with cmnd_list_size <= 0 only ping then sends anything.
UninitialisedVerb ==
    \E outcome \in {"fault", "none", "ping"} :
        /\ pc' = IF outcome = "fault" THEN "crashed" ELSE pc
        /\ reply' = IF outcome = "ping" THEN REDIS_PONG ELSE NoReply
        /\ op' = Op("malformed", "")
        /\ UNCHANGED <<db, heap, now, pushFailed>>

\* to_lowercase(NULL) at main.c:220 when the first extraction failed
NullVerb ==
    /\ pc' = "crashed"
    /\ reply' = NoReply
    /\ op' = Op("malformed", "")
    /\ UNCHANGED <<db, heap, now, pushFailed>>

\* the argument count announced by a buffer
Argc(buf) == extract_number(2, buf).num

\* how many arguments can have been extracted when the loop at main.c:211
\* ends: all of them, or those before the first failed malloc
ParsedCounts(buf) == 0 .. (IF Argc(buf) > 0 THEN Argc(buf) ELSE 0)

\* One request (main.c:199-280): buf holds the bytes received; parsed is
\* the number of arguments extracted before a malloc of extract_bulk_string
\* fails (parsed = argument count: none fails).
Request(buf, parsed) ==
    /\ pc = "events"
    /\ CharAt(buf, 1) = 42
    /\ parsed \in ParsedCounts(buf)
    /\ LET cmnd_list_size == extract_number(2, buf)
           cmnds == ExtractArgs(buf, cmnd_list_size.ind + 2, 0, parsed)
       IN IF cmnd_list_size.num <= 0
          THEN UninitialisedVerb
          ELSE IF parsed = 0
          THEN NullVerb
          ELSE Dispatch(cmnds)

(***************************************************************************)
Tick ==
    /\ pc # "crashed"
    /\ now < MaxTime
    /\ now' = now + 1
    /\ op' = Op("tick", "")
    /\ reply' = NoReply
    /\ UNCHANGED <<db, heap, pc, pushFailed>>

(***************************************************************************)
(* One iteration of the active eviction loop (main.c:286-331).  Taken at   *)
(* pc = "events" it is the first iteration after the event batch.          *)
(***************************************************************************)
\* variant: an entry expiring exactly now is not yet due
SweepDue_Strict(items, t) == Len(items) > 0 /\ ~(heap_peek(items).expiry_ms >= t)

SweepDue(items, t) == Len(items) > 0 /\ ~(heap_peek(items).expiry_ms > t)

\* variant: staleness judged by the key alone
SweepStale_KeyOnly(d, e_heap) == e_heap.key \notin DOMAIN d

SweepStale(d, e_heap) ==
    e_heap.key \notin DOMAIN d \/ d[e_heap.key].expiry # e_heap.expiry_ms

SweepStep ==
    /\ pc \in {"events", "sweep"}
    /\ reply' = NoReply
    /\ UNCHANGED <<now, pushFailed>>
    /\ IF ~SweepDue(heap, now)
       THEN /\ pc' = "events"
            /\ op' = Op("sweep_break", "")
            /\ UNCHANGED <<db, heap>>
       ELSE LET e_heap == heap_peek(heap) IN
            /\ pc' = "sweep"
            /\ heap' = heap_pop(heap)
            /\ IF SweepStale(db, e_heap)
               THEN /\ op' = Op("sweep_stale", e_heap.key)
                    /\ UNCHANGED db
               ELSE /\ op' = Op("sweep_evict", e_heap.key)
                    /\ db' = DbDel(db, e_heap.key)

Init ==
    /\ db = << >>
    /\ heap = << >>
    /\ now = 0
    /\ pc = "events"
    /\ op = Op("init", "")
    /\ reply = NoReply
    /\ pushFailed = {}

(***************************************************************************)
(* Inputs.                                                                 *)
(***************************************************************************)
Vals == {StrA, StrB}
PxVals == 0 .. MaxPx

\* the non-empty sequences over S of length at most n
SeqsUpTo(S, n) == UNION {[1 .. m -> S] : m \in 1 .. n}

ListVals == {StrA, StrB, StrC}
ListIndexes == (0 - 2) .. (MaxListLen + 2)

ZMembers == {StrA, StrAB, StrB, StrC, <<99, 97>>}
ZScores == {1, 2}
ZPairs == ZScores \X ZMembers
ZIndexes == (0 - (MaxZCard + 1)) .. (MaxZCard + 1)

\* the entries pushed: one per timestamp for k1, and one for k2 that ties
\* with the earliest of them
HeapItems ==
    {HeapEntry(t, "k1") : t \in 0 .. (MaxTime + MaxPx)} \cup {HeapEntry(0, "k2")}

\* the one-byte members "a" .. "g"
AvlMembers == {<<c>> : c \in 97 .. 103}

\* the bytes a client sends for a list of arguments (at most 9 arguments of
\* at most 9 bytes): *<argc>\r\n, then $<len>\r\n<bytes>\r\n for each
CRLF == <<13, 10>>

RECURSIVE WireArgs(_)
WireArgs(args) ==
    IF args = << >> THEN << >>
    ELSE <<36, 48 + Len(Head(args))>> \o CRLF \o Head(args) \o CRLF \o WireArgs(Tail(args))

Wire(args) == <<42, 48 + Len(args)>> \o CRLF \o WireArgs(args)

StrK1 == KeyText("k1")
Str0 == <<48>>
Str1 == <<49>>
StrMinus1 == <<45, 49>>
StrGET == <<71, 69, 84>>
StrPX == <<80, 88>>

\* well-formed requests: every verb with a right and a wrong number of
\* arguments, verbs and the PX option in either case, and an unknown verb
Requests ==
    { <<StrPing>>, <<StrEcho, StrA>>, <<StrEcho>>,
      <<StrSet, StrK1, StrA>>, <<StrSet, StrK1, StrA, StrPX, Str1>>,
      <<StrSet, StrK1, StrB, StrPx>>, <<StrSet, StrK1>>,
      <<StrGET, StrK1>>, <<StrGet>>,
      <<StrRpush, StrK1, StrA>>, <<StrRpush, StrK1>>,
      <<StrLrange, StrK1, Str0, Str1>>, <<StrLrange, StrK1, Str0>>,
      <<StrZadd, StrK1, Str1, StrA>>, <<StrZadd, StrK1, Str1, StrA, Str1>>,
      <<StrZrange, StrK1, Str0, StrMinus1>>, <<StrZrange, StrK1, Str0>>,
      <<StrC>> }

\* "*0\r\n" and "*-1\r\n"
EmptyRequests == { <<42, 48, 13, 10>>, <<42, 45, 49, 13, 10>> }

Buffers == {Wire(args) : args \in Requests} \cup EmptyRequests

(***************************************************************************)
(* The store as a whole: every command on two keys, the clock and the      *)
(* active sweep.                                                           *)
(***************************************************************************)
Next ==
    \/ \E k \in Keys, v \in Vals : CmdSet(k, v, FALSE, 0, TRUE)
    \/ \E k \in Keys, v \in Vals, ms \in PxVals : CmdSet(k, v, TRUE, ms, TRUE)
    \/ \E k \in Keys : CmdGet(k)
    \/ \E k \in Keys : CmdRpush(k, <<StrA>>)
    \/ \E k \in Keys : CmdLrange(k, 0, 0)
    \/ \E k \in Keys : CmdZadd(k, <<<<1, StrA>>>>)
    \/ \E k \in Keys : CmdZrange(k, 0, 0 - 1)
    \/ Tick
    \/ SweepStep

Spec == Init /\ [][Next]_vars

(***************************************************************************)
(* The list commands on one key, with every argument list and index.       *)
(***************************************************************************)
NextList ==
    \/ \E vals \in SeqsUpTo(ListVals, 3) : CmdRpush("k1", vals)
    \/ \E start \in ListIndexes, stop \in ListIndexes : CmdLrange("k1", start, stop)

SpecList == Init /\ [][NextList]_vars

(***************************************************************************)
(* The sorted set on one key: ZADD of any one pair and of two pairs over   *)
(* two members, ZRANGE, and zset_remove.                                   *)
(***************************************************************************)
NextZSet ==
    \/ \E pairs \in SeqsUpTo(ZPairs, 1) : CmdZadd("k1", pairs)
    \/ \E pairs \in [1 .. 2 -> ZScores \X {StrA, StrB}] : CmdZadd("k1", pairs)
    \/ \E start \in {0 - 2, 0, 1}, stop \in {0 - 1, 1, 2} : CmdZrange("k1", start, stop)
    \/ \E member \in ZMembers : CallZsetRemove("k1", member)

SpecZSet == Init /\ [][NextZSet]_vars

(***************************************************************************)
(* The AVL tree by itself: zset_add and zset_remove called on one sorted   *)
(* set, with trees large enough for every rotation to move a subtree.      *)
(***************************************************************************)
NextAvl ==
    \/ \E score \in ZScores, member \in AvlMembers : CallZsetAdd("k1", score, member)
    \/ \E member \in AvlMembers : CallZsetRemove("k1", member)

SpecAvl == Init /\ [][NextAvl]_vars

(***************************************************************************)
(* The binary heap by itself: pushes and pops in any order.                *)
(***************************************************************************)
NextHeap ==
    \/ \E item \in HeapItems : CallHeapPush(item)
    \/ CallHeapPop

SpecHeap == Init /\ [][NextHeap]_vars

(***************************************************************************)
(* The expiry machinery alone: SET with and without PX, GET, the clock and *)
(* the sweep.  The sweep is scheduled after every epoll_wait, which        *)
(* returns after at most 100 ms (main.c:132): a sweep step that can be     *)
(* taken is eventually taken.                                              *)
(***************************************************************************)
NextExpiry ==
    \/ \E k \in Keys : CmdSet(k, StrA, FALSE, 0, TRUE)
    \/ \E k \in Keys, ms \in PxVals : CmdSet(k, StrA, TRUE, ms, TRUE)
    \/ \E k \in Keys : CmdGet(k)
    \/ Tick
    \/ SweepStep

SpecFair == Init /\ [][NextExpiry]_vars /\ WF_vars(SweepStep)

(***************************************************************************)
(* The expiry machinery under memory pressure: as NextExpiry, and a SET .. *)
(* PX whose bookkeeping entry cannot be allocated or pushed.               *)
(***************************************************************************)
NextOOM ==
    \/ \E k \in Keys : CmdSet(k, StrA, FALSE, 0, TRUE)
    \/ \E k \in Keys, ms \in PxVals : CmdSet(k, StrA, TRUE, ms, TRUE)
    \/ \E k \in Keys, ms \in PxVals : CmdSet(k, StrA, TRUE, ms, FALSE)
    \/ \E k \in Keys : CmdGet(k)
    \/ Tick
    \/ SweepStep

SpecOOM == Init /\ [][NextOOM]_vars

(***************************************************************************)
(* Requests as received on the wire: parsed and dispatched, with any       *)
(* extraction possibly failing for lack of memory.                         *)
(***************************************************************************)
NextDispatch ==
    \/ \E buf \in Buffers : \E parsed \in ParsedCounts(buf) : Request(buf, parsed)
    \/ Tick
    \/ SweepStep

SpecDispatch == Init /\ [][NextDispatch]_vars

(***************************************************************************)
(* Properties.                                                             *)
(***************************************************************************)
SweepVerbs == {"sweep_break", "sweep_stale", "sweep_evict"}

PlainString(d, k) == k \in DOMAIN d /\ d[k].type = "string" /\ d[k].expiry = NoExpiry

\* C1: SET k v without PX installs the string v with no expiry, whatever k
\* held; from then on no step other than a SET on k changes or removes the
\* entry (clock advances, sweeps, commands on other keys, reads of k), and a
\* GET k replies with the bulk string of v.
C1_SetThenGet ==
    [][ /\ \A k \in Keys, v \in Vals :
              CmdSet(k, v, FALSE, 0, TRUE) =>
                  /\ k \in DOMAIN db'
                  /\ db'[k] = StringEntry(v, NoExpiry)
                  /\ reply' = REDIS_OK
        /\ \A k \in Keys :
              (PlainString(db, k) /\ op' # Op("set", k)) =>
                  /\ k \in DOMAIN db'
                  /\ db'[k] = db[k]
        /\ \A k \in Keys :
              (PlainString(db, k) /\ op' = Op("get", k)) =>
                  reply' = encode_bulk_str(db[k].str)
      ]_vars

\* a GET replied with the value of a string whose earlier TTL was cleared by
\* a SET without PX: the orphaned bookkeeping entry is due and still in the
\* heap, and the clock has moved
C1_Witness ==
    \E k \in Keys :
        /\ op = Op("get", k)
        /\ PlainString(db, k)
        /\ reply = encode_bulk_str(db[k].str)
        /\ now > 0
        /\ \E i \in 1 .. Len(heap) : heap[i].key = k /\ heap[i].expiry_ms <= now

\* C2: after a GET k, k is not left in the key space with an expiry at or
\* before the current time (the GET removed it and replied null bulk).
C2_ExpiredGetIsNull ==
    \A k \in Keys :
        op = Op("get", k) =>
            /\ ~(k \in DOMAIN db /\ db[k].expiry # NoExpiry /\ db[k].expiry <= now)
            /\ (k \notin DOMAIN db => reply = NULL_BULK_STRING)

\* an entry of the heap that is the live bookkeeping entry of its key
LiveEntry(e) == e.key \in DOMAIN db /\ db[e.key].expiry = e.expiry_ms

Tracked(k, E) ==
    /\ k \in DOMAIN db
    /\ db[k].expiry = E
    /\ \E i \in 1 .. Len(heap) : heap[i] = HeapEntry(E, k)

ExpiryVals == 0 .. (MaxTime + MaxPx)

\* C3: when a sweep ends, no key whose live expiry has a bookkeeping entry is
\* due (expiry <= now): the sweep removed every such key, without any
\* command touching it; a sweep step that pops the live entry of a key
\* removes the key; and under fair scheduling of the sweep a tracked key
\* that is due is eventually removed or overwritten.
C3_SweepRemovesDue ==
    /\ [](op.verb = "sweep_break" =>
            \A i \in 1 .. Len(heap) : LiveEntry(heap[i]) => heap[i].expiry_ms > now)
    /\ [][ (op'.verb \in SweepVerbs /\ Len(heap) > 0 /\ heap[1].expiry_ms <= now
               /\ LiveEntry(heap[1]))
           => heap[1].key \notin DOMAIN db' ]_vars
    /\ \A k \in Keys, E \in ExpiryVals :
           (Tracked(k, E) /\ E <= now) ~> ~(k \in DOMAIN db /\ db[k].expiry = E)

\* the sweep evicted a key exactly at its expiry time, the last command on it
\* being the SET that gave it the TTL
C3_Witness ==
    \E k \in Keys :
        /\ op = Op("sweep_evict", k)
        /\ k \notin DOMAIN db
        /\ now > 0

\* C4: a sweep step removes a key only if the entry at the top of the heap
\* names that key, is due (timestamp <= now) and carries exactly the key's
\* current expiry; every other key, and the key of a stale entry, is left as
\* it was.
C4_SweepEvictsOnlyExact ==
    [][ op'.verb \in SweepVerbs =>
          /\ DOMAIN db' \subseteq DOMAIN db
          /\ \A k \in DOMAIN db' : db'[k] = db[k]
          /\ \A k \in (DOMAIN db) \ (DOMAIN db') :
                /\ Len(heap) > 0
                /\ heap[1].key = k
                /\ heap[1].expiry_ms <= now
                /\ db[k].expiry = heap[1].expiry_ms
      ]_vars

\* the sweep discarded an orphaned entry of a key whose current expiry is
\* still in the future
C4_Witness ==
    \E k \in Keys :
        /\ op = Op("sweep_stale", k)
        /\ k \in DOMAIN db
        /\ db[k].expiry # NoExpiry
        /\ db[k].expiry > now
        /\ \E i \in 1 .. Len(heap) : heap[i] = HeapEntry(db[k].expiry, k)

ExpectedType(verb) ==
    CASE verb = "get" -> "string"
      [] verb \in {"rpush", "lrange"} -> "list"
      [] verb \in {"zadd", "zrange"} -> "zset"
      [] OTHER -> "none"

Unexpired(e) == e.expiry = NoExpiry \/ e.expiry > now

\* C5: a GET, RPUSH, LRANGE, ZADD or ZRANGE on an existing, unexpired key of
\* another type replies WRONGTYPE and changes neither the key space nor the
\* expiry heap.
C5_WrongTypeNoMutation ==
    [][ \A k \in Keys :
          (/\ k \in DOMAIN db
           /\ Unexpired(db[k])
           /\ op'.key = k
           /\ ExpectedType(op'.verb) # "none"
           /\ ExpectedType(op'.verb) # db[k].type)
          => (reply' = REDIS_WRONGTYPE /\ db' = db /\ heap' = heap)
      ]_vars

\* RPUSH was refused on a key holding a string with a pending TTL
C5_Witness ==
    \E k \in Keys :
        /\ op = Op("rpush", k)
        /\ reply = REDIS_WRONGTYPE
        /\ k \in DOMAIN db
        /\ db[k].type = "string"
        /\ db[k].expiry > now

IsList(d, k) == k \in DOMAIN d /\ d[k].type = "list"

\* C6: LRANGE k 0 -1 on a list replies with all of its elements in insertion
\* order.
C6_LrangeWholeList ==
    [][ \A k \in Keys :
          (IsList(db, k) /\ CmdLrange(k, 0, 0 - 1)) =>
              reply' = ArrayReply(db[k].list.len, ListItems(db[k].list))
      ]_vars

\* what C7 says LRANGE start stop replies on the list l
LrangeExpected(l, start, stop0) ==
    LET len == l.len
        stop == IF stop0 >= len THEN len - 1 ELSE stop0
    IN IF start >= len \/ start > stop THEN REDIS_EMPTY_ARRAY
       ELSE ArrayReply((stop - start) + 1, SubSeq(ListItems(l), start + 1, stop + 1))

\* C7: for 0 <= start and any stop, LRANGE on a list of length len replies
\* with the empty array if start >= len or start > min(stop, len-1) (so for
\* LRANGE k 5 3 on three elements), and
\* otherwise with exactly the elements at positions start .. min(stop, len-1),
\* in list order; the list is not changed and the walk stays inside it.
C7_LrangeWindow ==
    [][ \A k \in Keys, start \in ListIndexes, stop \in ListIndexes :
          (IsList(db, k) /\ start >= 0 /\ CmdLrange(k, start, stop)) =>
              /\ reply' = LrangeExpected(db[k].list, start, stop)
              /\ db' = db
              /\ pc' = pc
      ]_vars

\* LRANGE replied with a proper window of two elements out of three
C7_Witness ==
    /\ op = Op("lrange", "k1")
    /\ IsList(db, "k1")
    /\ db["k1"].list.len = 3
    /\ reply = ArrayReply(2, SubSeq(ListItems(db["k1"].list), 2, 3))
    /\ ListItems(db["k1"].list) = <<StrA, StrB, StrC>>

\* C8: RPUSH k v1..vn on an absent key creates a list with no TTL; on an
\* absent or list-typed key the list afterwards is the old contents followed
\* by v1..vn, and the reply is the integer old length + n.
C8_RpushAppends ==
    [][ \A k \in Keys, vals \in SeqsUpTo(ListVals, 3) :
          ((k \notin DOMAIN db \/ IsList(db, k)) /\ CmdRpush(k, vals)) =>
              LET old == IF k \in DOMAIN db THEN ListItems(db[k].list) ELSE <<>>
                  oldLen == IF k \in DOMAIN db THEN db[k].list.len ELSE 0
              IN /\ IsList(db', k)
                 /\ ListItems(db'[k].list) = old \o vals
                 /\ reply' = encode_integer(oldLen + Len(vals))
                 /\ k \notin DOMAIN db => db'[k].expiry = NoExpiry
                 /\ heap' = heap
      ]_vars

\* an RPUSH left the list c, a, b under k1, without TTL, and replied 3
C8_Witness ==
    /\ op = Op("rpush", "k1")
    /\ IsList(db, "k1")
    /\ ListItems(db["k1"].list) = <<StrC, StrA, StrB>>
    /\ reply = encode_integer(3)
    /\ db["k1"].expiry = NoExpiry

IsZSet(d, k) == k \in DOMAIN d /\ d[k].type = "zset"

\* the (score, member) pairs stored in the nodes of a tree
RECURSIVE TreePairs(_)
TreePairs(node) ==
    IF node = Nil THEN {}
    ELSE {<<node.score, node.member>>} \cup TreePairs(node.left) \cup TreePairs(node.right)

\* the number of nodes of a tree, counted by walking it
RECURSIVE TreeSize(_)
TreeSize(node) ==
    IF node = Nil THEN 0 ELSE 1 + TreeSize(node.left) + TreeSize(node.right)

\* the number of pairs, taken left to right, whose member is not yet in S
RECURSIVE CountNew(_, _)
CountNew(S, pairs) ==
    IF pairs = <<>> THEN 0
    ELSE (IF Head(pairs)[2] \in S THEN 0 ELSE 1)
         + CountNew(S \cup {Head(pairs)[2]}, Tail(pairs))

\* C9: ZADD replies with the number of pairs whose member was not in the
\* sorted set when the pair was processed, pairs being processed left to
\* right; a pair whose member exists, with the same or another score,
\* counts 0.  Stated of every ZADD of one or two pairs that can be issued in
\* a reachable state, on a key that is absent or holds a sorted set.
C9_ZaddCountsNew ==
    \A k \in Keys, pairs \in SeqsUpTo(ZPairs, 2) :
        (k \notin DOMAIN db \/ IsZSet(db, k)) =>
            LET members == IF k \in DOMAIN db THEN TreeMembers(db[k].zset) ELSE {}
                r == handle_zadd_result(db, k, pairs)
            IN /\ r.reply = encode_integer(CountNew(members, pairs))
               /\ IsZSet(r.db, k)
               /\ TreeMembers(r.db[k].zset) = members \cup {pairs[i][2] : i \in 1 .. Len(pairs)}

\* a ZADD on a set of MaxZCard members replied 0: every pair it named was an
\* existing member
C9_Witness ==
    /\ op = Op("zadd", "k1")
    /\ IsZSet(db, "k1")
    /\ TreeSize(db["k1"].zset) = MaxZCard
    /\ reply = encode_integer(0)

\* (score, member) order as a predicate on pairs
PairLess(p, q) == _zset_avl_cmp(p[1], p[2], q[1], q[2]) < 0

\* C10: a ZADD of one pair whose member exists with another score keeps the
\* number of members, keeps every other member with its score, stores the
\* new score for the member, and the member is then found at the rank it has
\* in the (score, member) order of the new set.  Stated of every such ZADD
\* that can be issued in a reachable state.
C10_ScoreUpdate ==
    \A k \in Keys, p \in ZPairs :
        (/\ IsZSet(db, k)
         /\ p[2] \in TreeMembers(db[k].zset)
         /\ p \notin TreePairs(db[k].zset))
        => LET before == TreePairs(db[k].zset)
               root == handle_zadd_result(db, k, <<p>>).db[k].zset
               after == TreePairs(root)
               rank == Cardinality({q \in after : PairLess(q, p)})
               found == zset_get_by_rank(root, rank)
           IN /\ after = {q \in before : q[2] # p[2]} \cup {p}
              /\ TreeSize(root) = TreeSize(db[k].zset)
              /\ _zset_avl_count(root) = _zset_avl_count(db[k].zset)
              /\ found # Nil
              /\ found.member = p[2]
              /\ found.score = p[1]

\* a score update moved a member of a full set to the last rank
C10_Witness ==
    /\ op = Op("zadd", "k1")
    /\ IsZSet(db, "k1")
    /\ reply = encode_integer(0)
    /\ TreeSize(db["k1"].zset) = MaxZCard
    /\ TreePairs(db["k1"].zset) = {<<1, StrAB>>, <<1, StrB>>, <<1, StrC>>, <<2, StrA>>}
    /\ zset_get_by_rank(db["k1"].zset, 3) # Nil
    /\ zset_get_by_rank(db["k1"].zset, 3).member = StrA

\* lexicographic order on byte strings: a proper prefix comes first
RECURSIVE LexLess(_, _)
LexLess(a, b) ==
    IF b = <<>> THEN FALSE
    ELSE IF a = <<>> THEN TRUE
    ELSE IF Head(a) # Head(b) THEN Head(a) < Head(b)
    ELSE LexLess(Tail(a), Tail(b))

\* score ascending, then member lexicographically
ScoreThenMember(p, q) == p[1] < q[1] \/ (p[1] = q[1] /\ LexLess(p[2], q[2]))

\* the pairs of S in (score, member) order
RECURSIVE SortedPairs(_)
SortedPairs(S) ==
    IF S = {} THEN <<>>
    ELSE LET m == CHOOSE p \in S : \A q \in S \ {p} : ScoreThenMember(p, q)
         IN <<m>> \o SortedPairs(S \ {m})

MembersOf(ps) == [i \in 1 .. Len(ps) |-> ps[i][2]]

\* C11: whatever sequence of ZADDs built the sorted set on k, ZRANGE k 0 -1
\* replies with an array holding every member exactly once, in score
\* ascending then member lexicographic order.
C11_ZrangeAllSorted ==
    \A k \in Keys :
        IsZSet(db, k)
        => LET ps == SortedPairs(TreePairs(db[k].zset)) IN
           /\ Len(ps) = Cardinality(TreeMembers(db[k].zset))
           /\ handle_zrange_reply(db, k, 0, 0 - 1) = ArrayReply(Len(ps), MembersOf(ps))

\* ZRANGE k1 0 -1 has just replied [a, c, b]: c sorts before b by its lower
\* score, and after a by its member at equal score
C11_Witness ==
    /\ op = Op("zrange", "k1")
    /\ IsZSet(db, "k1")
    /\ TreePairs(db["k1"].zset) = {<<1, StrA>>, <<1, StrC>>, <<2, StrB>>}
    /\ reply = ArrayReply(3, <<StrA, StrC, StrB>>)

\* the reply the range rule gives on the set of pairs S: indexes resolved
\* as count+index when negative, a still-negative start clamped to 0 (and
\* a still-negative stop too when clampStop), stop clamped to count-1
ZrangeClaimed(S, start0, stop0, clampStop) ==
    LET ps == SortedPairs(S)
        count == Len(ps)
        s1 == IF start0 < 0 THEN count + start0 ELSE start0
        e1 == IF stop0 < 0 THEN count + stop0 ELSE stop0
        s2 == IF s1 < 0 THEN 0 ELSE s1
        e2 == IF clampStop /\ e1 < 0 THEN 0 ELSE e1
        e3 == IF e2 > count - 1 THEN count - 1 ELSE e2
    IN IF s2 > e3 \/ s2 >= count
       THEN REDIS_EMPTY_ARRAY
       ELSE ArrayReply((e3 - s2) + 1, [i \in 1 .. ((e3 - s2) + 1) |-> ps[s2 + i][2]])

\* C12 as stated: ZRANGE resolves a negative start or stop as count+index,
\* clamps a still-negative start and a still-negative stop to 0, clamps
\* stop to count-1, replies the empty array when start > stop or
\* start >= count, and otherwise the members at ranks start .. stop.
C12_ZrangeClampsBoth ==
    \A k \in Keys, start \in ZIndexes, stop \in ZIndexes :
        IsZSet(db, k)
        => handle_zrange_reply(db, k, start, stop)
             = ZrangeClaimed(TreePairs(db[k].zset), start, stop, TRUE)

\* C12 amended: only a still-negative start is clamped to 0; a stop that
\* is still negative after resolution stays negative, so the reply is the
\* empty array.  Everything else as stated.
C12_ZrangeClampsStart ==
    \A k \in Keys, start \in ZIndexes, stop \in ZIndexes :
        IsZSet(db, k)
        => handle_zrange_reply(db, k, start, stop)
             = ZrangeClaimed(TreePairs(db[k].zset), start, stop, FALSE)

\* ZRANGE k1 -2 -1 has just replied the last two members of a full set
C12_Witness ==
    /\ op = Op("zrange", "k1")
    /\ IsZSet(db, "k1")
    /\ TreePairs(db["k1"].zset) = {<<1, StrA>>, <<1, StrB>>, <<2, StrAB>>, <<2, StrC>>}
    /\ reply = ArrayReply(2, <<StrAB, StrC>>)
    /\ reply = handle_zrange_reply(db, "k1", 0 - 2, 0 - 1)

AccessorVerbs == {"get", "rpush", "lrange", "zadd", "zrange"}

\* the expiry time of k's entry has elapsed
Elapsed(d, k, t) == k \in DOMAIN d /\ d[k].expiry # NoExpiry /\ d[k].expiry < t

\* C13: every accessor (GET, RPUSH, LRANGE, ZADD, ZRANGE) treats a key
\* whose expiry time has elapsed as absent before any type check, so none
\* of them replies WRONGTYPE because of an entry that has expired: after an
\* accessor has replied WRONGTYPE, the key does not hold an elapsed entry.
C13_ExpiredNeverWrongType ==
    (op.verb \in AccessorVerbs /\ reply = REDIS_WRONGTYPE)
    => ~Elapsed(db, op.key, now)

\* a SET k v PX ms whose bookkeeping entry could not be pushed installs the
\* value and the expiry, replies +OK and leaves the heap as it was
FailedSetInstalls ==
    \A k \in Keys, v \in Vals, ms \in PxVals :
        CmdSet(k, v, TRUE, ms, FALSE)
        => /\ db' = DbPut(db, k, StringEntry(v, now + ms))
           /\ reply' = REDIS_OK
           /\ heap' = heap

\* k holds the entry installed by a SET whose push failed
HoldsFailedSet(k) == k \in pushFailed /\ k \in DOMAIN db /\ db[k].expiry # NoExpiry

\* this step is a passive eviction of k: an access that found k elapsed
PassiveEvictionOf(k) ==
    /\ op'.verb \in {"get", "lrange"}
    /\ op'.key = k
    /\ Elapsed(db, k, now)

RecognizedVerbs == {"echo", "ping", "set", "get", "rpush", "lrange", "zadd", "zrange"}

\* C15: every request whose verb is one of the recognized verbs yields
\* exactly one reply, also when the argument count is wrong for the verb:
\* once such a request has been handled (and the process lives), a reply
\* has been sent.
C15_AlwaysOneReply ==
    (op.verb \in RecognizedVerbs /\ pc # "crashed") => reply # NoReply

\* the request in buf, of which parsed arguments could be extracted, is
\* malformed: no argument announced, or an extraction failed
Malformed(buf, parsed) == Argc(buf) <= 0 \/ parsed < Argc(buf)

\* C16: a malformed request (argument count zero or negative, or an
\* argument whose extraction fails) aborts only that request: the process
\* goes on (no read of a verb or argument that was not parsed can fault)
\* and the key space and the expiry heap are as they were.
C16_MalformedAbortsAlone ==
    [][\A buf \in Buffers : \A parsed \in ParsedCounts(buf) :
          (Malformed(buf, parsed) /\ Request(buf, parsed))
          => (pc' = pc /\ db' = db /\ heap' = heap)]_vars

\* C17: when the active sweep completes (its loop has just stopped), the
\* expiry heap is empty or its smallest timestamp is strictly greater than
\* the current time: no due entry, stale or valid, is left behind.
C17_SweepDrainsDue ==
    op.verb = "sweep_break"
    => \A i \in 1 .. Len(heap) : heap[i].expiry_ms > now

\* a sweep has just completed at time 1 and left the one entry that is not
\* yet due
C17_Witness ==
    /\ op.verb = "sweep_break"
    /\ now = 1
    /\ Len(heap) = 1
    /\ heap[1].expiry_ms = 2

\* the bookkeeping entries of a heap, and how often each occurs
HeapEntries(items) == {items[i] : i \in 1 .. Len(items)}
Count(items, e) == Cardinality({i \in 1 .. Len(items) : items[i] = e})

\* what a step may do to the heap while the sweep is concerned
SweepShrinksHeap ==
    /\ (op'.verb \in {"sweep_stale", "sweep_evict"})
       => (/\ Len(heap') = Len(heap) - 1
           /\ \A e \in HeapEntries(heap) :
                  Count(heap', e)
                    = Count(heap, e) - (IF e = heap_peek(heap) THEN 1 ELSE 0)
           /\ HeapEntries(heap') \subseteq HeapEntries(heap))
    /\ (op'.verb = "sweep_break") => (heap' = heap /\ pc' = "events")
    /\ (pc = "sweep") => (op'.verb \in SweepVerbs \cup {"tick"})

\* C18: the active sweep always terminates.  An iteration that does not
\* stop removes exactly one entry, the root, from the heap and pushes
\* none; the stopping iteration leaves the heap as it is and returns to the
\* event loop; no request is handled while the sweep runs; and a sweep
\* that has started reaches the event loop again.
C18_SweepTerminates ==
    [][SweepShrinksHeap]_vars /\ (pc = "sweep" ~> pc = "events")

\* mid-sweep: one entry has been popped and another due entry is waiting
C18_Witness ==
    /\ pc = "sweep"
    /\ op.verb \in {"sweep_stale", "sweep_evict"}
    /\ Len(heap) = 1
    /\ heap[1].expiry_ms <= now

\* what a step that is not a pop of the sweep may do to the heap
CommandsKeepEntries ==
    /\ (op'.verb \notin {"sweep_stale", "sweep_evict"})
       => \A e \in HeapEntries(heap) : Count(heap', e) >= Count(heap, e)
    /\ (op'.verb \in AccessorVerbs) => (heap' = heap)

\* C19: no command removes or modifies an entry of the expiry heap: a SET
\* (overwriting or not) keeps every existing entry, as often as it occurs;
\* GET, RPUSH, LRANGE, ZADD and ZRANGE, passive evictions included, leave
\* the heap as it is; only the pops of the active sweep take entries out.
C19_OnlySweepRemoves == [][CommandsKeepEntries]_vars

\* a SET without expiry has just overwritten k1, and the entry an earlier
\* SET .. PX pushed for k1 is still in the heap
C19_Witness ==
    /\ op = Op("set", "k1")
    /\ PlainString(db, "k1")
    /\ \E i \in 1 .. Len(heap) : heap[i].key = "k1"

\* what a SET does to the key's expiry and to the heap
SetAddsOneEntry ==
    \A k \in Keys, v \in Vals :
        /\ \A ms \in PxVals :
               CmdSet(k, v, TRUE, ms, TRUE)
               => LET added == HeapEntry(now + ms, k) IN
                  /\ db'[k].expiry = now + ms
                  /\ Len(heap') = Len(heap) + 1
                  /\ \A e \in HeapEntries(heap) \cup {added} :
                         Count(heap', e) = Count(heap, e) + (IF e = added THEN 1 ELSE 0)
        /\ CmdSet(k, v, FALSE, 0, TRUE)
           => (db'[k].expiry = NoExpiry /\ heap' = heap)

\* C20: SET k v PX ms stores E = now + ms as k's expiry and adds exactly
\* one entry (E, k) to the expiry heap, also when the heap already holds
\* entries for k; SET k v without expiry stores 'no expiry' and leaves the
\* heap as it is.
C20_SetAddsOneEntry == [][SetAddsOneEntry]_vars

\* the second of two SET k1 .. PX with the same deadline has just run, at
\* time 1: the heap holds the entry (2, k1) twice
C20_Witness ==
    /\ op = Op("set", "k1")
    /\ now = 1
    /\ db["k1"].expiry = 2
    /\ Count(heap, HeapEntry(2, "k1")) = 2

\* the height of a tree, measured by walking it
RECURSIVE TreeHeight(_)
TreeHeight(node) ==
    IF node = Nil THEN 0
    ELSE 1 + (IF TreeHeight(node.left) > TreeHeight(node.right)
              THEN TreeHeight(node.left) ELSE TreeHeight(node.right))

\* at every node the children's heights differ by at most 1 and the stored
\* height is 1 plus the larger of the children's stored heights
RECURSIVE Balanced(_)
Balanced(node) ==
    \/ node = Nil
    \/ /\ TreeHeight(node.left) - TreeHeight(node.right) \in {0 - 1, 0, 1}
       /\ node.height = TreeHeight(node)
       /\ node.height
            = 1 + (IF _zset_avl_height(node.left) > _zset_avl_height(node.right)
                   THEN _zset_avl_height(node.left) ELSE _zset_avl_height(node.right))
       /\ Balanced(node.left)
       /\ Balanced(node.right)

\* C21: after any sequence of insertions, score updates and removals, at
\* every node of the AVL tree the children's heights differ by at most 1
\* and the stored height is 1 plus the larger of the children's heights.
C21_AvlBalanced ==
    \A k \in Keys : IsZSet(db, k) => Balanced(db[k].zset)

\* a removal has just left a full-height tree of five nodes: the stored
\* height of the root is 3
C21_Witness ==
    /\ op = Op("zset_remove", "k1")
    /\ reply = encode_integer(1)
    /\ IsZSet(db, "k1")
    /\ TreeSize(db["k1"].zset) = 5
    /\ db["k1"].zset.height = 3
    /\ TreeHeight(db["k1"].zset.left) # TreeHeight(db["k1"].zset.right)

\* at every node the count field is 1 plus the count fields of the children
RECURSIVE Counted(_)
Counted(node) ==
    \/ node = Nil
    \/ /\ node.count = 1 + _zset_avl_count(node.left) + _zset_avl_count(node.right)
       /\ Counted(node.left)
       /\ Counted(node.right)

\* C22: after any sequence of insertions, score updates and removals,
\* every rotation case included, every node's count field is 1 plus the
\* counts of both children, and the root's count is the number of members.
C22_AvlCounts ==
    \A k \in Keys :
        IsZSet(db, k)
        => /\ Counted(db[k].zset)
           /\ _zset_avl_count(db[k].zset) = Cardinality(TreeMembers(db[k].zset))
           /\ _zset_avl_count(db[k].zset) = TreeSize(db[k].zset)

\* zset_add has just made a tree of six nodes, two in the left subtree and
\* three in the right
C22_Witness ==
    /\ op = Op("zset_add", "k1")
    /\ reply = encode_integer(1)
    /\ IsZSet(db, "k1")
    /\ TreeSize(db["k1"].zset) = 6
    /\ db["k1"].zset.count = 6
    /\ _zset_avl_count(db["k1"].zset.left) = 2
    /\ _zset_avl_count(db["k1"].zset.right) = 3

\* every pair of the left subtree sorts before the node's pair and every
\* pair of the right subtree after it, at every node
RECURSIVE SearchTree(_)
SearchTree(node) ==
    \/ node = Nil
    \/ LET here == <<node.score, node.member>> IN
       /\ \A p \in TreePairs(node.left) : ScoreThenMember(p, here)
       /\ \A p \in TreePairs(node.right) : ScoreThenMember(here, p)
       /\ SearchTree(node.left)
       /\ SearchTree(node.right)

\* C23: after any sequence of zset_add and zset_remove calls the tree is a
\* binary search tree under the (score, then member) order, and no member
\* occurs in more than one node.
C23_SearchTreeUniqueMembers ==
    \A k \in Keys :
        IsZSet(db, k)
        => /\ SearchTree(db[k].zset)
           /\ TreeSize(db[k].zset) = Cardinality(TreeMembers(db[k].zset))

\* a score update has just moved "a" behind "b": the tree holds (1, b) and
\* (2, a), each once
C23_Witness ==
    /\ op = Op("zset_add", "k1")
    /\ reply = encode_integer(0)
    /\ IsZSet(db, "k1")
    /\ TreePairs(db["k1"].zset) = {<<1, StrB>>, <<2, StrA>>}
    /\ TreeSize(db["k1"].zset) = 2

\* the ranks zset_get_by_rank is asked for (rank is a size_t)
Ranks == 0 .. (MaxAvlCard + 1)

\* C24: on every tree reachable by insertions, updates and removals,
\* zset_get_by_rank(rank) returns none exactly when rank >= the number of
\* members, and otherwise the node holding the pair at 0-based position
\* rank of the (score, member) ordered sequence of the set.
C24_GetByRank ==
    \A k \in Keys :
        IsZSet(db, k)
        => LET root == db[k].zset
               ps == SortedPairs(TreePairs(root))
           IN \A rank \in Ranks :
                 LET node == zset_get_by_rank(root, rank) IN
                 /\ (node = Nil) <=> (rank >= Cardinality(TreeMembers(root)))
                 /\ (node # Nil) => <<node.score, node.member>> = ps[rank + 1]

\* a tree of six nodes: rank 5 is found below the root's right child, rank
\* 6 is out of range
C24_Witness ==
    /\ IsZSet(db, "k1")
    /\ TreeSize(db["k1"].zset) = 6
    /\ zset_get_by_rank(db["k1"].zset, 5) # Nil
    /\ zset_get_by_rank(db["k1"].zset, 5) # db["k1"].zset.right
    /\ zset_get_by_rank(db["k1"].zset, 5).member \in TreeMembers(db["k1"].zset.right)
    /\ zset_get_by_rank(db["k1"].zset, 6) = Nil

\* C25: zset_remove(member) on a set that holds the member removes that
\* member's node and no other, keeps every other (score, member) pair and
\* returns 1, whether the node has no child, one child or two; on a set
\* that does not hold the member it returns 0 and leaves the tree as it is.
C25_ZsetRemove ==
    \A k \in Keys :
        IsZSet(db, k)
        => LET root == db[k].zset IN
           \A member \in AvlMembers :
               LET r == zset_remove(root, member) IN
               IF member \in TreeMembers(root)
               THEN /\ r.removed = 1
                    /\ TreePairs(r.root) = {p \in TreePairs(root) : p[2] # member}
                    /\ TreeSize(r.root) = TreeSize(root) - 1
               ELSE /\ r.removed = 0
                    /\ r.root = root

\* zset_remove has just returned 1 and left five nodes, and the root of
\* the tree has two children (removing its member is the successor case)
C25_Witness ==
    /\ op = Op("zset_remove", "k1")
    /\ reply = encode_integer(1)
    /\ IsZSet(db, "k1")
    /\ TreeSize(db["k1"].zset) = 5
    /\ db["k1"].zset.left # Nil
    /\ db["k1"].zset.right # Nil
    /\ db["k1"].zset.right.left # Nil

\* every entry is no earlier than its parent (the parent of items[i] is
\* items[i \div 2] with 1-based indexes)
HeapOrdered(items) ==
    \A i \in 2 .. Len(items) : items[i].expiry_ms >= items[i \div 2].expiry_ms

\* the timestamps returned by popping until the heap is empty
RECURSIVE PopTimes(_)
PopTimes(items) ==
    IF Len(items) = 0 THEN << >>
    ELSE <<heap_peek(items).expiry_ms>> \o PopTimes(heap_pop(items))

NonDecreasing(seq) == \A i \in 1 .. (Len(seq) - 1) : seq[i] <= seq[i + 1]

\* C26: after any sequence of heap_push and heap_pop calls, every entry's
\* timestamp is >= its parent's; heap_peek returns an entry with the
\* smallest timestamp, or none when the heap is empty; heap_pop removes
\* the entry it returns, once, and keeps all others; and popping
\* repeatedly returns timestamps in non-decreasing order.
C26_HeapInvariants ==
    /\ HeapOrdered(heap)
    /\ IF Len(heap) = 0
       THEN heap_peek(heap) = Nil /\ heap_pop(heap) = heap
       ELSE /\ \A i \in 1 .. Len(heap) : heap_peek(heap).expiry_ms <= heap[i].expiry_ms
            /\ Len(heap_pop(heap)) = Len(heap) - 1
            /\ \A e \in HeapEntries(heap) :
                   Count(heap_pop(heap), e)
                     = Count(heap, e) - (IF e = heap_peek(heap) THEN 1 ELSE 0)
    /\ Len(PopTimes(heap)) = Len(heap)
    /\ NonDecreasing(PopTimes(heap))

\* heap_pop has just returned an entry of timestamp 0 from a full heap, and
\* the entries left have three different timestamps
C26_Witness ==
    /\ op.verb = "heap_pop"
    /\ reply = encode_integer(0)
    /\ Len(heap) = 4
    /\ Cardinality({heap[i].expiry_ms : i \in 1 .. Len(heap)}) = 3

\* C27: provided no push of a bookkeeping entry has failed, every entry of
\* the key space that carries an expiry E has at least one heap entry with
\* its key and timestamp exactly E, in every reachable state: across SETs
\* with and without PX, passive evictions, RPUSH, ZADD and sweeps.
C27_ExpiryIsTracked ==
    pushFailed = {}
    => \A k \in DOMAIN db : db[k].expiry # NoExpiry => Tracked(k, db[k].expiry)

\* k1 was set twice with different deadlines: the heap holds the stale
\* entry (0, k1) and the entry (1, k1) of the expiry k1 carries now
C27_Witness ==
    /\ op = Op("set", "k1")
    /\ "k1" \in DOMAIN db
    /\ db["k1"].expiry = 1
    /\ \E i \in 1 .. Len(heap) : heap[i] = HeapEntry(0, "k1")
    /\ \E i \in 1 .. Len(heap) : heap[i] = HeapEntry(1, "k1")

\* C28: in every reachable state every entry of the key space of type list
\* or sorted set has no expiry, so no list-typed key is ever passively
\* expired: only SET stores an expiry and SET installs the string type.
C28_OnlyStringsExpire ==
    \A k \in DOMAIN db :
        db[k].type \in {"list", "zset"}
        => /\ db[k].expiry = NoExpiry
           /\ ~PassivelyExpired(db[k], now)

\* k1 was a string with a TTL, was evicted, and is a list now while an
\* entry of its earlier life is still in the heap
C28_Witness ==
    /\ op = Op("rpush", "k1")
    /\ "k1" \in DOMAIN db
    /\ db["k1"].type = "list"
    /\ \E i \in 1 .. Len(heap) : heap[i].key = "k1"

\* C29: for every list and every start and stop, negative ones included,
\* LRANGE announces and emits at most len elements, and its walk never
\* advances past the tail node (it never reads through an empty link).
C29_LrangeWithinList ==
    /\ pc # "crashed"
    /\ (op.verb = "lrange" /\ IsList(db, op.key) /\ reply.kind = "array")
       => /\ reply.n <= db[op.key].list.len
          /\ Len(reply.items) <= db[op.key].list.len

\* the nodes met when following next from node cur, in order
RECURSIVE ListPath(_, _)
ListPath(nodes, cur) ==
    IF cur = NULL THEN <<>> ELSE <<cur>> \o ListPath(nodes, nodes[cur].next)

WellFormedList(l) ==
    LET path == ListPath(l.nodes, l.head) IN
    /\ l.len >= 1
    /\ Len(path) = l.len
    /\ path[Len(path)] = l.tail
    /\ l.nodes[l.tail].next = NULL

\* C30: in every reachable state every list value of the key space has len
\* equal to the number of nodes reachable from head, tail is the last node
\* reachable from head and its next link is empty, and len >= 1.
C30_ListWellFormed ==
    \A k \in DOMAIN db : db[k].type = "list" => WellFormedList(db[k].list)

\* a list of three nodes that an RPUSH has just extended
C30_Witness ==
    /\ op = Op("rpush", "k1")
    /\ reply = encode_integer(3)
    /\ IsList(db, "k1")
    /\ db["k1"].list.len = 3
    /\ db["k1"].list.head = 1
    /\ db["k1"].list.tail = 3

====
